---- MODULE Spec2Model ----
(***************************************************************************)
(* Model of the request handler of src/app.py: a FastAPI application with  *)
(* POST /api (process_questions) and GET / (health_check), served by one   *)
(* uvicorn event loop.                                                     *)
(*                                                                         *)
(* Texts are TLA+ strings; a character is a string of length one.          *)
(***************************************************************************)
EXTENDS Integers, Sequences, FiniteSets, TLC

(***************************************************************************)
(* Text helpers: what the Python str methods used by the handler do.       *)
(***************************************************************************)

\* s[i] (1-based), as a string of length one.
Chr(s, i) == SubSeq(s, i, i)

\* s[i:] (1-based, inclusive).
From(s, i) == SubSeq(s, i, Len(s))

\* Python's str.startswith at an offset.
StartsWithAt(s, i, p) == i + Len(p) - 1 <= Len(s) /\ SubSeq(s, i, i + Len(p) - 1) = p

\* "p in s".
Contains(s, p) == \E i \in 1..(Len(s) - Len(p) + 1) : StartsWithAt(s, i, p)

\* The characters str.strip() removes and the regex class \s matches.
Whitespace == {" ", "\n", "\t", "\r", "\f"}

RECURSIVE LStrip(_)
LStrip(s) ==
    IF s # "" /\ Chr(s, 1) \in Whitespace THEN LStrip(From(s, 2)) ELSE s

RECURSIVE RStrip(_)
RStrip(s) ==
    IF s # "" /\ Chr(s, Len(s)) \in Whitespace
    THEN RStrip(SubSeq(s, 1, Len(s) - 1))
    ELSE s

\* str.strip()
Strip(s) == RStrip(LStrip(s))

\* str.replace(old, new): leftmost non-overlapping occurrences, one pass.
RECURSIVE Replace(_, _, _)
Replace(s, old, new) ==
    IF s = "" THEN ""
    ELSE IF StartsWithAt(s, 1, old)
         THEN new \o Replace(From(s, Len(old) + 1), old, new)
         ELSE Chr(s, 1) \o Replace(From(s, 2), old, new)

\* str.lower() on the letters the model uses.
LowerChar(c) ==
    CASE c = "S" -> "s" [] c = "C" -> "c" [] c = "R" -> "r"
      [] c = "A" -> "a" [] c = "P" -> "p" [] c = "E" -> "e"
      [] OTHER -> c

RECURSIVE Lower(_)
Lower(s) == IF s = "" THEN "" ELSE LowerChar(Chr(s, 1)) \o Lower(From(s, 2))

\* sep.join(parts)
RECURSIVE Join(_, _)
Join(parts, sep) ==
    IF parts = <<>> THEN ""
    ELSE IF Len(parts) = 1 THEN parts[1]
    ELSE parts[1] \o sep \o Join(Tail(parts), sep)

\* generated_text = response.text.strip()
\* cleaned_response = generated_text.replace('\n', '').replace('  ', ' ').strip()
\* Variant: the cleaning without replace('  ', ' ').
CleanWithoutCollapse(text) == Strip(Replace(Strip(text), "\n", ""))

CleanResponse(text) ==
    Strip(Replace(Replace(Strip(text), "\n", ""), "  ", " "))

(***************************************************************************)
(* json.loads on texts without backslash escapes: arrays, objects,         *)
(* strings, numbers and the constants.  A value is a record                *)
(*   [type, text, items]                                                   *)
(* type in array, object, string, number, literal, pair (an object's       *)
(* member: text is the key, items the one value).                          *)
(***************************************************************************)

JsonWhitespace == {" ", "\n", "\t", "\r"}
Digits == {"0", "1", "2", "3", "4", "5", "6", "7", "8", "9"}
Literals == {"true", "false", "null", "NaN", "Infinity", "-Infinity"}
Quote == "\""

\* Characters the decoder rejects unescaped inside a string (strict mode).
ControlChars == {"\n", "\t", "\r", "\f"}

Value(type, text, items) == [type |-> type, text |-> text, items |-> items]
NoValue == Value("none", "", <<>>)
Fail == [ok |-> FALSE, next |-> 0, val |-> NoValue]
Ok(next, val) == [ok |-> TRUE, next |-> next, val |-> val]

\* The first index >= i that is past the end or holds no JSON whitespace.
RECURSIVE SkipWs(_, _)
SkipWs(s, i) ==
    IF i <= Len(s) /\ Chr(s, i) \in JsonWhitespace THEN SkipWs(s, i + 1) ELSE i

\* The index of the quote closing the string whose content starts at i, or 0
\* when a control character or the end of the text comes first.
RECURSIVE StringEnd(_, _)
StringEnd(s, i) ==
    IF i > Len(s) THEN 0
    ELSE IF Chr(s, i) = Quote THEN i
    ELSE IF Chr(s, i) \in ControlChars \/ Chr(s, i) = "\\" THEN 0
    ELSE StringEnd(s, i + 1)

\* The first index >= i that holds no digit.
RECURSIVE DigitsEnd(_, _)
DigitsEnd(s, i) ==
    IF i <= Len(s) /\ Chr(s, i) \in Digits THEN DigitsEnd(s, i + 1) ELSE i

ParseString(s, i) ==
    LET e == StringEnd(s, i + 1)
    IN  IF e = 0 THEN Fail
        ELSE Ok(e + 1, Value("string", SubSeq(s, i + 1, e - 1), <<>>))

\* The constants the scanner accepts besides the three of JSON.
ParseLiteral(s, i) ==
    IF \E l \in Literals : StartsWithAt(s, i, l)
    THEN LET l == CHOOSE l \in Literals : StartsWithAt(s, i, l)
         IN  Ok(i + Len(l), Value("literal", l, <<>>))
    ELSE Fail

\* NUMBER_RE = (-?(?:0|[1-9]\d*))(\.\d+)?([eE][-+]?\d+)? at index i; what
\* is no number may still be -Infinity.
ParseNumber(s, i) ==
    LET d == IF Chr(s, i) = "-" THEN i + 1 ELSE i
    IN  IF d > Len(s) \/ Chr(s, d) \notin Digits THEN ParseLiteral(s, i)
        ELSE LET int == IF Chr(s, d) = "0" THEN d + 1 ELSE DigitsEnd(s, d)
                 frac == IF int <= Len(s) /\ Chr(s, int) = "."
                            /\ DigitsEnd(s, int + 1) > int + 1
                         THEN DigitsEnd(s, int + 1) ELSE int
                 sign == IF frac + 1 <= Len(s) /\ Chr(s, frac + 1) \in {"+", "-"}
                         THEN frac + 2 ELSE frac + 1
                 exp == IF frac <= Len(s) /\ Chr(s, frac) \in {"e", "E"}
                           /\ DigitsEnd(s, sign) > sign
                        THEN DigitsEnd(s, sign) ELSE frac
             IN  Ok(exp, Value("number", SubSeq(s, i, exp - 1), <<>>))

RECURSIVE ParseValue(_, _)
RECURSIVE ParseItems(_, _, _)
RECURSIVE ParseMembers(_, _, _)

\* The scanner's scan_once at index i (no leading whitespace skipped).
ParseValue(s, i) ==
    IF i > Len(s) THEN Fail
    ELSE LET c == Chr(s, i)
         IN  CASE c = Quote -> ParseString(s, i)
               [] c = "[" ->
                    LET j == SkipWs(s, i + 1)
                    IN  IF j <= Len(s) /\ Chr(s, j) = "]"
                        THEN Ok(j + 1, Value("array", "", <<>>))
                        ELSE ParseItems(s, j, <<>>)
               [] c = "{" ->
                    LET j == SkipWs(s, i + 1)
                    IN  IF j <= Len(s) /\ Chr(s, j) = "}"
                        THEN Ok(j + 1, Value("object", "", <<>>))
                        ELSE ParseMembers(s, j, <<>>)
               [] c \in Digits \cup {"-"} -> ParseNumber(s, i)
               [] OTHER -> ParseLiteral(s, i)

\* JSONArray after "[": a value at i, then "," or "]".
ParseItems(s, i, acc) ==
    LET v == ParseValue(s, i)
    IN  IF ~v.ok THEN Fail
        ELSE LET j == SkipWs(s, v.next)
                 items == Append(acc, v.val)
             IN  IF j > Len(s) THEN Fail
                 ELSE IF Chr(s, j) = "]" THEN Ok(j + 1, Value("array", "", items))
                 ELSE IF Chr(s, j) = "," THEN ParseItems(s, SkipWs(s, j + 1), items)
                 ELSE Fail

\* JSONObject after "{": a string key at i, ":", a value, then "," or "}".
ParseMembers(s, i, acc) ==
    IF i > Len(s) \/ Chr(s, i) # Quote THEN Fail
    ELSE LET k == ParseString(s, i)
         IN  IF ~k.ok THEN Fail
             ELSE LET c == SkipWs(s, k.next)
                  IN  IF c > Len(s) \/ Chr(s, c) # ":" THEN Fail
                      ELSE LET v == ParseValue(s, SkipWs(s, c + 1))
                           IN  IF ~v.ok THEN Fail
                               ELSE LET j == SkipWs(s, v.next)
                                        items == Append(acc, Value("pair", k.val.text, <<v.val>>))
                                    IN  IF j > Len(s) THEN Fail
                                        ELSE IF Chr(s, j) = "}"
                                             THEN Ok(j + 1, Value("object", "", items))
                                        ELSE IF Chr(s, j) = ","
                                             THEN ParseMembers(s, SkipWs(s, j + 1), items)
                                        ELSE Fail

\* json.loads(s): one value between optional whitespace, nothing after it;
\* ok = FALSE stands for JSONDecodeError.
JsonLoads(s) ==
    LET v == ParseValue(s, SkipWs(s, 1))
    IN  IF v.ok /\ SkipWs(s, v.next) = Len(s) + 1 THEN v ELSE Fail

(***************************************************************************)
(* The scrape step: trigger, URL extraction and table serialisation.       *)
(***************************************************************************)

\* "wikipedia.org" in questions_text or "scrape" in questions_text.lower()
ScrapeTriggered(text) ==
    Contains(text, "wikipedia.org") \/ Contains(Lower(text), "scrape")

\* The end (exclusive) of the run of non-whitespace characters from i.
RECURSIVE NonSpaceEnd(_, _)
NonSpaceEnd(s, i) ==
    IF i <= Len(s) /\ Chr(s, i) \notin Whitespace THEN NonSpaceEnd(s, i + 1) ELSE i

\* Whether the pattern https?://[^\s]+ matches at index i.
UrlMatchesAt(s, i) ==
    \/ StartsWithAt(s, i, "http://") /\ NonSpaceEnd(s, i + 7) > i + 7
    \/ StartsWithAt(s, i, "https://") /\ NonSpaceEnd(s, i + 8) > i + 8

\* re.search(r'https?://[^\s]+', text): the leftmost match, or "" for None.
RECURSIVE UrlSearchFrom(_, _)
UrlSearchFrom(s, i) ==
    IF i > Len(s) THEN ""
    ELSE IF UrlMatchesAt(s, i) THEN SubSeq(s, i, NonSpaceEnd(s, i) - 1)
    ELSE UrlSearchFrom(s, i + 1)

UrlSearch(text) == UrlSearchFrom(text, 1)

\* rows[:100]
ScrapeRowLimit == 100

\* A page is a sequence of tables [class, rows]; a row is the sequence of its
\* cells' texts (get_text() of each th/td).
\* soup.find('table', {'class': 'wikitable'}): the first such table, or the
\* empty sequence for None.
RECURSIVE FindWikitable(_)
FindWikitable(tables) ==
    IF tables = <<>> THEN <<>>
    ELSE IF Head(tables).class = "wikitable" THEN <<Head(tables)>>
    ELSE FindWikitable(Tail(tables))

\* [cell.get_text().strip() for cell in row.find_all(...)]
StripCells(row) == [i \in 1..Len(row) |-> Strip(row[i])]

\* The concatenation line[lo] \o ... \o line[hi], by halves.
RECURSIVE Concat(_, _, _)
Concat(line, lo, hi) ==
    IF lo > hi THEN ""
    ELSE IF lo = hi THEN line[lo]
    ELSE LET mid == (lo + hi) \div 2
         IN  Concat(line, lo, mid) \o Concat(line, mid + 1, hi)

HasCols(row) == row # <<>>

\* The data rows: for each tr after the header its stripped cells, kept
\* "if cols".
DataRows(trs) ==
    LET kept == SelectSeq(trs, HasCols)
    IN  [i \in 1..Len(kept) |-> StripCells(kept[i])]

\* "".join(",".join(row) + "\n" for row in rows)
CsvLines(rows) ==
    Concat([i \in 1..Len(rows) |-> Join(rows[i], ",") \o "\n"], 1, Len(rows))

\* Variant: rows instead of rows[:100].
FirstRowsNoLimit(rows) == rows

\* rows[:100]
FirstRows(rows) ==
    IF Len(rows) <= ScrapeRowLimit THEN rows ELSE SubSeq(rows, 1, ScrapeRowLimit)

\* The value of scraped_data after a fetch that raised nothing.
ScrapeTable(url, tables) ==
    LET found == FindWikitable(tables)
    IN  IF found = <<>> THEN ""
        ELSE LET trs == found[1].rows
                 headers == IF trs = <<>> THEN <<>> ELSE StripCells(Head(trs))
                 rows == IF trs = <<>> THEN <<>> ELSE DataRows(Tail(trs))
             IN  IF headers # <<>> /\ rows # <<>>
                 THEN "Scraped Data from " \o url \o ":\n"
                      \o Join(headers, ",") \o "\n"
                      \o CsvLines(FirstRows(rows))
                 ELSE ""

\* except Exception as e: scraped_data = f"Error scraping data: {str(e)}"
ScrapeErrorNote(msg) == "Error scraping data: " \o msg

\* The outcome of requests.get + raise_for_status + the parse: an exception
\* with its message, or the page's tables.
FetchError(msg) == [raises |-> TRUE, error |-> msg, tables |-> <<>>]
FetchPage(tables) == [raises |-> FALSE, error |-> "", tables |-> tables]
NoFetch == FetchPage(<<>>)

\* Variant: a scrape exception swallowed without a note.
ScrapedDataSilent(url, out) ==
    IF out.raises THEN "" ELSE ScrapeTable(url, out.tables)

ScrapedData(url, out) ==
    IF out.raises THEN ScrapeErrorNote(out.error) ELSE ScrapeTable(url, out.tables)

(***************************************************************************)
(* Prompt composition.                                                     *)
(***************************************************************************)

\* The fixed instruction text of full_prompt, abridged, up to the CSV slot.
Instructions ==
    "You are a data analyst. Respond with ONLY a valid JSON array or object.\n"
    \o "Below is the CSV data to use for all calculations:\n"

FullPrompt(questions_text, csv_text, prompt_parts) ==
    Instructions \o csv_text \o "\n\nRequest to process:\n" \o questions_text
    \o "\n" \o Join(Tail(prompt_parts), "\n")

(***************************************************************************)
(* The server.  Each task is one HTTP request handled by the one event     *)
(* loop.  The handlers are coroutines: between two awaits a handler runs   *)
(* without interruption, and a call that does not await (requests.get,     *)
(* generate_content) keeps the loop until it returns.                      *)
(***************************************************************************)

Tasks == {1, 2}

VARIABLES
    world,      \* the name of the environment the server runs in
    apiKey,     \* os.getenv("GEMINI_API_KEY"); NoKey when unset
    pc,         \* each task's place
    request,    \* each task's request: method and multipart parts
    locals,     \* each handler's local variables
    calls,      \* each task's outbound calls so far, in order
    response,   \* each task's HTTP response once pc is "done"
    blocked     \* the task whose blocking call holds the event loop, or 0

vars == <<world, apiKey, pc, request, locals, calls, response, blocked>>

NoKey == "<unset>"

\* An uploaded part: present or not; valid: its read() succeeds and its bytes
\* decode as UTF-8 to text.
Part(present, valid, text) == [present |-> present, valid |-> valid, text |-> text]
Absent == Part(FALSE, FALSE, "")
Upload(text) == Part(TRUE, TRUE, text)
BadUpload == Part(TRUE, FALSE, "")

NoRequest == [method |-> "", questions |-> Absent, image |-> Absent, csv |-> Absent]

\* The model collaborator's outcome: an exception, or response.text.
ModelError == [raises |-> TRUE, text |-> ""]
ModelText(text) == [raises |-> FALSE, text |-> text]

NoLocals ==
    [questions_text |-> "", url |-> "", fetch |-> NoFetch, scraped_data |-> "",
     prompt_parts |-> <<>>, full_prompt |-> "", reply |-> ModelError]

NoResponse == [status |-> 0, body |-> NoValue]

\* A JSON object given as its members, and a JSON string.
Str(text) == Value("string", text, <<>>)
Member(key, val) == Value("pair", key, <<val>>)
Object(members) == Value("object", "", members)

\* HTTPException(status_code, detail)
HttpError(status, detail) ==
    [status |-> status, body |-> Object(<<Member("detail", Str(detail))>>)]

\* A handler's return value, sent with status 200 (its rendering by the
\* framework is not modelled).
Success(body) == [status |-> 200, body |-> body]

\* Variant: the cleaned text returned without the wrapper.
BareText(cleaned) == Str(cleaned)

\* {"response": cleaned_response, "status": "success"}
Wrapper(cleaned) ==
    Object(<<Member("response", Str(cleaned)), Member("status", Str("success"))>>)

\* {"status": "healthy", "version": "1.2"}
Healthy ==
    Object(<<Member("status", Str("healthy")), Member("version", Str("1.2"))>>)

(***************************************************************************)
(* Environments: the requests the clients send and what the scraped site   *)
(* and the model answer.                                                   *)
(***************************************************************************)

MaxReplyLen == 4
MaxWords == 2
ExtraRows == 2

Env(keys, methods, questions, images, csvs, fetches, replies) ==
    [keys |-> keys, methods |-> methods, questions |-> questions,
     images |-> images, csvs |-> csvs, fetches |-> fetches, replies |-> replies]

\* Task 1 posts, task 2 asks for the health check.
OnePost == [t \in Tasks |-> IF t = 1 THEN {"POST"} ELSE {"GET"}]
AnyMethod == [t \in Tasks |-> {"POST", "GET"}]

\* A small table: a header row and two data rows.
SmallTable ==
    [class |-> "wikitable", rows |-> << <<"name", " n ">>, <<"a", "1">>, <<"b", "2">> >>]

SomeFetches ==
    {FetchError("timeout"), FetchError("404 Client Error"), FetchError(""),
     FetchError("parse error"), FetchPage(<<>>), FetchPage(<<SmallTable>>)}

MainEnv ==
    Env({NoKey, "", "k"}, OnePost,
        {Absent, BadUpload, Upload("q"), Upload("Scrape http://a"),
         Upload("see wikipedia.org")},
        {Absent, Upload(""), BadUpload},
        {Absent, Upload("x,y\n1,2"), BadUpload},
        SomeFetches,
        {ModelError, ModelText(""), ModelText("[1]"), ModelText("no")})

\* All texts of up to n characters of the alphabet.
RECURSIVE TextsUpTo(_, _)
TextsUpTo(alphabet, n) ==
    IF n = 0 THEN {""}
    ELSE LET shorter == TextsUpTo(alphabet, n - 1)
         IN  shorter \cup {s \o c : s \in shorter, c \in alphabet}

ReplyAlphabet == {"[", "]", Quote, " ", "\n", "1", "a"}

LongerReplies ==
    {"{}", "{\"a\": 1}", "{\"a\":\n\"b  c\"}", "[1,\n \"a  a\"]", "null", " true \n",
     "[1, 2]\n", "The answer\nis  42.", "nu\nll", "{\"a\" 1}", "json:\n[1]",
     "-1.5e3", "1\n.5", "[0, -2]", "1 2"}

ReplyEnv ==
    Env({"k"}, OnePost, {Upload("scrape http://a")}, {Upload("")}, {Upload("")},
        {FetchError("timeout")},
        {ModelError}
        \cup {ModelText(s) : s \in TextsUpTo(ReplyAlphabet, MaxReplyLen) \cup LongerReplies})

\* Question texts: up to MaxWords words, joined by a space or by nothing.
Words == {"q", "Scrape", "wikipedia.org", "http://a", "https://b.wikipedia.org", "http://"}

RECURSIVE Phrases(_)
Phrases(n) ==
    IF n = 0 THEN {""}
    ELSE IF n = 1 THEN Words
    ELSE Phrases(n - 1)
         \cup {p \o sep \o w : p \in Phrases(n - 1), sep \in {"", " "}, w \in Words}

TriggerEnv ==
    Env({NoKey, "k"}, OnePost,
        {Absent, BadUpload} \cup {Upload(s) : s \in Phrases(MaxWords)},
        {Absent, Upload("")}, {Absent, BadUpload},
        {FetchError("timeout"), FetchPage(<<>>)},
        {ModelText("[1]")})

\* Tables: a header row and n data rows, some of them without cells.
HeaderRows == {<<" name ", "value\n">>, <<"">>, <<>>}
RowPatterns == {"all", "second", "even", "none"}

HasCells(i, pattern) ==
    CASE pattern = "all" -> TRUE
      [] pattern = "second" -> i # 2
      [] pattern = "even" -> i % 2 = 1
      [] OTHER -> FALSE

TableRow(i, pattern) ==
    IF HasCells(i, pattern) THEN <<" r" \o ToString(i) \o " ", "x">> ELSE <<>>

RowCounts == 0..3 \cup (ScrapeRowLimit - 1)..(ScrapeRowLimit + ExtraRows)

Table(header, n, pattern) ==
    [class |-> "wikitable",
     rows |-> <<header>> \o [i \in 1..n |-> TableRow(i, pattern)]]

Tables ==
    {Table(h, n, p) : h \in HeaderRows, n \in RowCounts, p \in RowPatterns}
    \cup {[class |-> "wikitable", rows |-> <<>>]}

PlainTable == [class |-> "", rows |-> << <<"x">>, <<"y">> >>]

ScrapeEnv ==
    Env({"k"}, OnePost, {Upload("https://en.wikipedia.org/wiki/T top films")},
        {Absent, Upload("")}, {Absent, Upload("c")},
        {FetchError("timeout"), FetchPage(<<>>), FetchPage(<<PlainTable>>)}
        \cup {FetchPage(<<T>>) : T \in Tables}
        \cup {FetchPage(<<PlainTable, T, SmallTable>>) : T \in Tables},
        {ModelText("[1]")})

ConcEnv ==
    Env({"k"}, AnyMethod, {Upload("q"), Upload("scrape http://a")},
        {Absent, Upload("")}, {Absent, Upload("c")},
        {FetchError("timeout"), FetchPage(<<SmallTable>>)},
        {ModelText("[1]"), ModelError})

\* The environment of each name.
EnvOf(name) ==
    CASE name = "main" -> MainEnv
      [] name = "reply" -> ReplyEnv
      [] name = "trigger" -> TriggerEnv
      [] name = "scrape" -> ScrapeEnv
      [] name = "concurrent" -> ConcEnv

env == EnvOf(world)

InitWith(name) ==
    /\ world = name
    /\ apiKey \in EnvOf(name).keys
    /\ pc = [t \in Tasks |-> "idle"]
    /\ request = [t \in Tasks |-> NoRequest]
    /\ locals = [t \in Tasks |-> NoLocals]
    /\ calls = [t \in Tasks |-> <<>>]
    /\ response = [t \in Tasks |-> NoResponse]
    /\ blocked = 0

\* A client sends a request: POST /api with its multipart parts, or GET /.
Send(t) ==
    /\ pc[t] = "idle"
    /\ \E m \in env.methods[t] :
         IF m = "POST"
         THEN \E q \in env.questions, i \in env.images, c \in env.csvs :
                request' = [request EXCEPT ![t] =
                              [method |-> "POST", questions |-> q, image |-> i, csv |-> c]]
         ELSE request' = [request EXCEPT ![t] =
                            [method |-> "GET", questions |-> Absent,
                             image |-> Absent, csv |-> Absent]]
    /\ pc' = [pc EXCEPT ![t] = "sent"]
    /\ UNCHANGED <<world, apiKey, locals, calls, response, blocked>>

\* Variant: questions.txt declared with default=None, not required.
RouteWithoutValidation(req) ==
    IF req.method = "GET" THEN "health" ELSE "handler"

\* The place a request goes once the framework has read and validated it:
\* questions.txt is File(...) without a default, a required part; a request
\* without it is answered 422 by the framework and no handler runs.
Route(req) ==
    IF req.method = "GET" THEN "health"
    ELSE IF ~req.questions.present THEN "done"
    ELSE "handler"

\* The event loop takes a request up.
Receive(t) ==
    /\ pc[t] = "sent"
    /\ blocked = 0
    /\ pc' = [pc EXCEPT ![t] = Route(request[t])]
    /\ response' = [response EXCEPT ![t] =
                      IF Route(request[t]) = "done"
                      THEN HttpError(422, "Field required")
                      ELSE @]
    /\ UNCHANGED <<world, apiKey, request, locals, calls, blocked>>

\* health_check
HealthCheck(t) ==
    /\ pc[t] = "health"
    /\ blocked = 0
    /\ pc' = [pc EXCEPT ![t] = "done"]
    /\ response' = [response EXCEPT ![t] = Success(Healthy)]
    /\ UNCHANGED <<world, apiKey, request, locals, calls, blocked>>

\* Variant: the key test as 'api_key is None'.
KeyUnset(key) == key = NoKey

\* not api_key
KeyMissing(key) == key = NoKey \/ key = ""

\* process_questions up to its first await: the API key check.
StartHandler(t) ==
    /\ pc[t] = "handler"
    /\ blocked = 0
    /\ IF KeyMissing(apiKey)
       THEN /\ pc' = [pc EXCEPT ![t] = "done"]
            /\ response' = [response EXCEPT ![t] =
                 HttpError(500, "GEMINI_API_KEY environment variable not set")]
       ELSE /\ pc' = [pc EXCEPT ![t] = "await_questions"]
            /\ UNCHANGED response
    /\ UNCHANGED <<world, apiKey, request, locals, calls, blocked>>

\* The state of a handler that runs on from a place where nothing is awaited:
\* [pc, locals, calls, blocked] after the code up to the next await, blocking
\* call or response.
Step(place, loc, cs, holder) ==
    [pc |-> place, locals |-> loc, calls |-> cs, blocked |-> holder]

\* Lines 104-146: full_prompt is composed and generate_content is called.
CallModel(t, req, loc, cs) ==
    LET prompt == FullPrompt(loc.questions_text,
                             IF req.csv.present THEN req.csv.text ELSE "",
                             loc.prompt_parts)
    IN  Step("generating", [loc EXCEPT !.full_prompt = prompt],
             Append(cs, [kind |-> "generate", arg |-> prompt]), t)

\* Lines 96-100, from "if data_csv:" to the await of its read.
AfterImage(t, req, loc, cs) ==
    IF req.csv.present THEN Step("await_csv", loc, cs, 0)
    ELSE CallModel(t, req, loc, cs)

\* Lines 84-91: prompt_parts is started, then the optional parts are read.
AfterScrape(t, req, loc0, cs) ==
    LET parts == <<"Questions: " \o loc0.questions_text>>
                 \o (IF loc0.scraped_data # ""
                     THEN <<"Scraped Data: " \o loc0.scraped_data>> ELSE <<>>)
        loc == [loc0 EXCEPT !.prompt_parts = parts]
    IN  IF req.image.present THEN Step("await_image", loc, cs, 0)
        ELSE AfterImage(t, req, loc, cs)

\* Variant: the URL is fetched without the trigger test of line 39.
AfterQuestionsAlwaysScrape(t, req, text, cs) ==
    LET url == UrlSearch(text)
        loc == [NoLocals EXCEPT !.questions_text = text, !.url = url]
    IN  IF url # ""
        THEN Step("fetching", loc, Append(cs, [kind |-> "fetch", arg |-> url]), t)
        ELSE AfterScrape(t, req, loc, cs)

\* Lines 38-47: the scrape is triggered or skipped.
AfterQuestions(t, req, text, cs) ==
    LET url == IF ScrapeTriggered(text) THEN UrlSearch(text) ELSE ""
        loc == [NoLocals EXCEPT !.questions_text = text, !.url = url]
    IN  IF url # ""
        THEN Step("fetching", loc, Append(cs, [kind |-> "fetch", arg |-> url]), t)
        ELSE AfterScrape(t, req, loc, cs)

Goto(t, st) ==
    /\ pc' = [pc EXCEPT ![t] = st.pc]
    /\ locals' = [locals EXCEPT ![t] = st.locals]
    /\ calls' = [calls EXCEPT ![t] = st.calls]
    /\ blocked' = st.blocked

Finish(t, resp) ==
    /\ pc' = [pc EXCEPT ![t] = "done"]
    /\ response' = [response EXCEPT ![t] = resp]
    /\ blocked' = 0

\* await questions_txt.read() returns; then lines 33-47.
ReadQuestions(t) ==
    /\ pc[t] = "await_questions"
    /\ blocked = 0
    /\ IF ~request[t].questions.valid
       THEN /\ Finish(t, HttpError(400, "Error reading questions.txt"))
            /\ UNCHANGED <<locals, calls>>
       ELSE /\ Goto(t, AfterQuestions(t, request[t], request[t].questions.text, calls[t]))
            /\ UNCHANGED response
    /\ UNCHANGED <<world, apiKey, request>>

\* requests.get, raise_for_status and the parse end; then lines 84-91.
FetchReturns(t) ==
    /\ pc[t] = "fetching"
    /\ blocked = t
    /\ \E out \in env.fetches :
         Goto(t, AfterScrape(t, request[t],
                   [locals[t] EXCEPT !.fetch = out,
                                     !.scraped_data = ScrapedData(locals[t].url, out)],
                   calls[t]))
    /\ UNCHANGED <<world, apiKey, request, response>>

\* await image_png.read() returns; then lines 92-98.
ReadImage(t) ==
    /\ pc[t] = "await_image"
    /\ blocked = 0
    /\ IF ~request[t].image.valid
       THEN /\ Finish(t, HttpError(400, "Error reading image.png"))
            /\ UNCHANGED <<locals, calls>>
       ELSE /\ Goto(t, AfterImage(t, request[t],
                        [locals[t] EXCEPT !.prompt_parts =
                            \* image_png.filename, here image.png
                            Append(@, "Image file provided: image.png")],
                        calls[t]))
            /\ UNCHANGED response
    /\ UNCHANGED <<world, apiKey, request>>

\* await data_csv.read() returns; then lines 99-146.
ReadCsv(t) ==
    /\ pc[t] = "await_csv"
    /\ blocked = 0
    /\ IF ~request[t].csv.valid
       THEN /\ Finish(t, HttpError(400, "Error reading data.csv"))
            /\ UNCHANGED <<locals, calls>>
       ELSE /\ Goto(t, CallModel(t, request[t],
                        [locals[t] EXCEPT !.prompt_parts =
                            Append(@, "CSV Data: " \o request[t].csv.text)],
                        calls[t]))
            /\ UNCHANGED response
    /\ UNCHANGED <<world, apiKey, request>>

\* Lines 148-169: the response made from the model call's outcome.
Normalize(out) ==
    IF out.raises THEN HttpError(500, "Error calling Gemini API")
    ELSE IF out.text = "" THEN HttpError(500, "Error calling Gemini API: No response")
    ELSE LET cleaned == CleanResponse(out.text)
             parsed == JsonLoads(cleaned)
         IN  IF parsed.ok THEN Success(parsed.val) ELSE Success(Wrapper(cleaned))

\* Variant: generate_content is called again after it raised.
ModelReturnsRetrying(t) ==
    /\ pc[t] = "generating"
    /\ blocked = t
    /\ \E out \in env.replies :
         IF out.raises /\ Len(calls[t]) < 3
         THEN /\ calls' = [calls EXCEPT ![t] =
                             Append(@, [kind |-> "generate", arg |-> locals[t].full_prompt])]
              /\ UNCHANGED <<pc, locals, response, blocked>>
         ELSE /\ locals' = [locals EXCEPT ![t].reply = out]
              /\ Finish(t, Normalize(out))
              /\ UNCHANGED calls
    /\ UNCHANGED <<world, apiKey, request>>

\* model.generate_content returns or raises; then lines 148-169.
ModelReturns(t) ==
    /\ pc[t] = "generating"
    /\ blocked = t
    /\ \E out \in env.replies :
         /\ locals' = [locals EXCEPT ![t].reply = out]
         /\ Finish(t, Normalize(out))
    /\ UNCHANGED <<world, apiKey, request, calls>>

\* The server's steps for task t.
Serve(t) ==
    \/ Receive(t)
    \/ HealthCheck(t)
    \/ StartHandler(t)
    \/ ReadQuestions(t)
    \/ FetchReturns(t)
    \/ ReadImage(t)
    \/ ReadCsv(t)
    \/ ModelReturns(t)

Next == \E t \in Tasks : Send(t) \/ Serve(t)
Init == InitWith("main")
Spec == Init /\ [][Next]_vars

InitReply == InitWith("reply")
SpecReply == InitReply /\ [][Next]_vars

InitTrigger == InitWith("trigger")
SpecTrigger == InitTrigger /\ [][Next]_vars

InitScrape == InitWith("scrape")
SpecScrape == InitScrape /\ [][Next]_vars

InitConc == InitWith("concurrent")
SpecConc == InitConc /\ [][Next]_vars

(***************************************************************************)
(* Properties.                                                             *)
(***************************************************************************)

Posted(t) == request[t].method = "POST"

\* Task t's handler got text from the model and has answered.
Replied(t) ==
    /\ Posted(t)
    /\ pc[t] = "done"
    /\ calls[t] # <<>>
    /\ calls[t][Len(calls[t])].kind = "generate"
    /\ ~locals[t].reply.raises
    /\ locals[t].reply.text # ""

ReplyText(t) == locals[t].reply.text

\* The text s restricted to the indices that satisfy Keep, in order.
Restrict(s, Keep(_)) ==
    LET kept == SelectSeq([i \in 1..Len(s) |-> i], Keep)
    IN  Concat([k \in 1..Len(kept) |-> Chr(s, kept[k])], 1, Len(kept))

\* The text s without surrounding whitespace, as the slice between its first
\* and last non-whitespace characters.
Trimmed(s) ==
    LET solid == {i \in 1..Len(s) : Chr(s, i) \notin Whitespace}
    IN  IF solid = {} THEN ""
        ELSE SubSeq(s, CHOOSE i \in solid : \A j \in solid : i <= j,
                       CHOOSE i \in solid : \A j \in solid : j <= i)

\* The cleaned reply, said without replace(): the trimmed text loses its
\* newlines, then every space at an even place of its run of spaces, and is
\* trimmed again.
Cleaned(text) ==
    LET t0 == Trimmed(text)
        NotNewline(i) == Chr(t0, i) # "\n"
        u == Restrict(t0, NotNewline)
        RunStart(i) == CHOOSE j \in 1..i :
                          /\ \A k \in j..i : Chr(u, k) = " "
                          /\ (j = 1 \/ Chr(u, j - 1) # " ")
        OddInRun(i) == Chr(u, i) # " " \/ (i - RunStart(i)) % 2 = 0
    IN  Trimmed(Restrict(u, OddInRun))

\* C1 (as claimed): a reply that is valid JSON is answered with the value it
\* parses to, unchanged.
C1_ValidJsonReturnedExactly ==
    \A t \in Tasks :
        (Replied(t) /\ JsonLoads(ReplyText(t)).ok)
            => response[t] = Success(JsonLoads(ReplyText(t)).val)

\* C6 (as claimed): a successful POST body is an array or an object (the
\* wrapper is an object); never a top-level scalar.
C6_NoTopLevelScalar ==
    \A t \in Tasks :
        (Posted(t) /\ pc[t] = "done" /\ response[t].status = 200)
            => response[t].body.type \in {"array", "object"}

IsWrapper(body) ==
    /\ body.type = "object"
    /\ Len(body.items) = 2
    /\ body.items[1].type = "pair" /\ body.items[1].text = "response"
    /\ body.items[1].items[1].type = "string"
    /\ body.items[2] = Member("status", Str("success"))

\* The reply, seen as a text, is one bare JSON scalar of the given type.
BareScalar(text, type) ==
    LET s == Cleaned(text)
    IN  CASE type = "string" ->
               /\ Len(s) >= 2
               /\ Chr(s, 1) = Quote
               /\ Chr(s, Len(s)) = Quote
               /\ \A i \in 2..(Len(s) - 1) : Chr(s, i) # Quote
          [] type = "number" ->
               /\ s # ""
               /\ Chr(s, 1) \in Digits \cup {"-"}
               /\ \A i \in 1..Len(s) : Chr(s, i) \in Digits \cup {"-", "+", ".", "e", "E"}
          [] type = "literal" -> s \in Literals
          [] OTHER -> FALSE

\* C6 (amended): a successful POST body is an array, an object, or the
\* top-level scalar that the cleaned reply spells; a body that is not the
\* parsed reply is the wrapper.
C6_BodyShapes ==
    \A t \in Tasks :
        (Posted(t) /\ pc[t] = "done" /\ response[t].status = 200)
            => /\ Replied(t)
               /\ \/ response[t].body.type = "array"
                  \/ response[t].body.type = "object"
                  \/ BareScalar(ReplyText(t), response[t].body.type)
               /\ (\A c \in {"[", "{", Quote, "-"} \cup Digits \cup Literals :
                      ~StartsWithAt(Cleaned(ReplyText(t)), 1, c))
                    => IsWrapper(response[t].body)

C6_Witness ==
    \E t \in Tasks :
        /\ Replied(t)
        /\ response[t].status = 200
        /\ response[t].body.type = "number"

\* C7 (as claimed): a non-empty reply that is not valid JSON is answered with
\* the wrapper around the reply stripped of surrounding whitespace.
C7_WrapperOfStripped ==
    \A t \in Tasks :
        (Replied(t) /\ ~JsonLoads(ReplyText(t)).ok)
            => response[t] = Success(Wrapper(Trimmed(ReplyText(t))))

\* C7 (amended): a non-empty reply whose cleaned text is not valid JSON is
\* answered with the wrapper around the cleaned text.
C7_WrapperOfCleaned ==
    \A t \in Tasks :
        (Replied(t) /\ ~JsonLoads(Cleaned(ReplyText(t))).ok)
            => response[t] = Success(Wrapper(Cleaned(ReplyText(t))))

C7_Witness ==
    \E t \in Tasks :
        /\ Replied(t)
        /\ ~JsonLoads(Cleaned(ReplyText(t))).ok
        /\ Contains(Trimmed(ReplyText(t)), "\n")
        /\ IsWrapper(response[t].body)
        /\ response[t].body.items[1].items[1].text # Trimmed(ReplyText(t))

(***************************************************************************)
(* Statuses and outbound calls.                                            *)
(***************************************************************************)

Answered(t) == Posted(t) /\ pc[t] = "done"

\* The indices of task t's outbound calls of one kind.
CallsOf(t, kind) == {i \in 1..Len(calls[t]) : calls[t][i].kind = kind}

BadQuestions(t) == request[t].questions.present /\ ~request[t].questions.valid
BadCsv(t) == request[t].csv.present /\ ~request[t].csv.valid

\* C2 (as claimed): undecodable questions.txt or data.csv ends in 400, with
\* the API key set or not.
C2_Undecodable400 ==
    \A t \in Tasks :
        (Answered(t) /\ (BadQuestions(t) \/ BadCsv(t))) => response[t].status = 400

\* C2 (amended): a request that has a questions.txt part, with undecodable
\* questions.txt or data.csv, ends in 400 when the API key is set and
\* non-empty, and in 500 when it is unset or empty.
C2_Undecodable400WithKey ==
    \A t \in Tasks :
        (Answered(t) /\ request[t].questions.present /\ (BadQuestions(t) \/ BadCsv(t)))
            => response[t].status = IF apiKey \in {NoKey, ""} THEN 500 ELSE 400

C2_Witness ==
    \E t \in Tasks :
        /\ Answered(t)
        /\ apiKey \notin {NoKey, ""}
        /\ request[t].questions.valid
        /\ BadCsv(t)
        /\ CallsOf(t, "fetch") # {}
        /\ locals[t].fetch.raises
        /\ response[t].status = 400

\* C3 (as claimed): a POST without a questions.txt part is answered 400.
C3_Missing400 ==
    \A t \in Tasks :
        (Answered(t) /\ ~request[t].questions.present) => response[t].status = 400

\* C3 (amended): a POST without a questions.txt part is answered 422 by the
\* framework's validation as soon as it is taken up; the handler does not
\* run and nothing is called.
C3_Missing422 ==
    \A t \in Tasks :
        (Posted(t) /\ ~request[t].questions.present /\ pc[t] # "sent")
            => /\ pc[t] = "done"
               /\ response[t].status = 422
               /\ calls[t] = <<>>
               /\ locals[t] = NoLocals

C3_Witness ==
    \E t \in Tasks :
        /\ Answered(t)
        /\ ~request[t].questions.present
        /\ request[t].csv.present
        /\ apiKey = "k"
        /\ response[t].status = 422

\* The request's inputs are all readable and the API key is set.
GoodInputs(t) ==
    /\ Posted(t)
    /\ apiKey \notin {NoKey, ""}
    /\ request[t].questions.present /\ request[t].questions.valid
    /\ request[t].image.present => request[t].image.valid
    /\ request[t].csv.present => request[t].csv.valid

\* The prompt task t sent to the model.
PromptOf(t) == calls[t][CHOOSE i \in CallsOf(t, "generate") : TRUE].arg

C9_NoRetry ==
    \A t \in Tasks :
        /\ Cardinality(CallsOf(t, "generate")) <= 1
        /\ Cardinality(CallsOf(t, "fetch")) <= 1
        /\ CallsOf(t, "generate") # {} => CallsOf(t, "generate") = {Len(calls[t])}
        /\ pc[t] = "generating" <=> (CallsOf(t, "generate") # {} /\ pc[t] # "done")
        /\ (pc[t] = "done" /\ CallsOf(t, "generate") # {}
              /\ (locals[t].reply.raises \/ locals[t].reply.text = ""))
             => response[t].status = 500

C9_Witness ==
    \E t \in Tasks :
        /\ pc[t] = "done" /\ CallsOf(t, "generate") # {} /\ CallsOf(t, "fetch") # {}
        /\ ~locals[t].reply.raises /\ locals[t].reply.text = ""
        /\ response[t].status = 500

(***************************************************************************)
(* The scrape trigger.                                                     *)
(***************************************************************************)

\* The text holds "scrape" at index i in some mix of cases.
ScrapeWordAt(s, i) ==
    /\ i + 5 <= Len(s)
    /\ Chr(s, i) \in {"s", "S"}
    /\ Chr(s, i + 1) \in {"c", "C"}
    /\ Chr(s, i + 2) \in {"r", "R"}
    /\ Chr(s, i + 3) \in {"a", "A"}
    /\ Chr(s, i + 4) \in {"p", "P"}
    /\ Chr(s, i + 5) \in {"e", "E"}

MentionsScraping(s) ==
    \/ \E i \in 1..Len(s) : i + 12 <= Len(s) /\ SubSeq(s, i, i + 12) = "wikipedia.org"
    \/ \E i \in 1..Len(s) : ScrapeWordAt(s, i)

\* A URL-shaped token starts at i: the scheme, then a non-whitespace character.
UrlStartsAt(s, i) ==
    \E scheme \in {"http://", "https://"} :
        LET after == i + Len(scheme)
        IN  /\ after <= Len(s)
            /\ SubSeq(s, i, after - 1) = scheme
            /\ Chr(s, after) \notin Whitespace

\* The first URL-shaped token: from the least such start up to the character
\* before the next whitespace (or the end of the text).
FirstUrlToken(s) ==
    LET first == CHOOSE i \in 1..Len(s) : UrlStartsAt(s, i) /\ \A j \in 1..(i - 1) : ~UrlStartsAt(s, j)
        last == CHOOSE j \in first..Len(s) :
                   /\ \A k \in first..j : Chr(s, k) \notin Whitespace
                   /\ (j = Len(s) \/ Chr(s, j + 1) \in Whitespace)
    IN  SubSeq(s, first, last)

\* The handler of task t is past its decision to scrape.
PastTrigger(t) ==
    pc[t] \in {"fetching", "await_image", "await_csv", "generating", "done"}

\* C10: a fetch is made exactly by the requests that got past the API-key
\* check and the decoding of questions.txt with a text that mentions scraping
\* and holds a URL-shaped token; it fetches the first such token, before the
\* optional parts are read; and a request answered 400 never called the model.
C10_FetchIffTriggered ==
    \A t \in Tasks :
        LET text == request[t].questions.text
        IN  /\ CallsOf(t, "fetch") # {}
                <=> /\ Posted(t) /\ PastTrigger(t)
                    /\ apiKey \notin {NoKey, ""}
                    /\ request[t].questions.present /\ request[t].questions.valid
                    /\ MentionsScraping(text)
                    /\ \E i \in 1..Len(text) : UrlStartsAt(text, i)
            /\ CallsOf(t, "fetch") # {}
                => /\ calls[t][1] = [kind |-> "fetch", arg |-> FirstUrlToken(text)]
                   /\ CallsOf(t, "fetch") = {1}
            /\ pc[t] \in {"await_image", "await_csv"} /\ MentionsScraping(text)
                 /\ (\E i \in 1..Len(text) : UrlStartsAt(text, i))
                => CallsOf(t, "fetch") # {}
            /\ (pc[t] = "done" /\ response[t].status = 400) => CallsOf(t, "generate") = {}

C10_Witness ==
    \E t \in Tasks :
        /\ Answered(t)
        /\ response[t].status = 400
        /\ BadCsv(t)
        /\ calls[t] = <<[kind |-> "fetch", arg |-> "https://b.wikipedia.org"]>>
        /\ request[t].questions.text = "http:// https://b.wikipedia.org"

(***************************************************************************)
(* The scraped table.                                                      *)
(***************************************************************************)

\* The fetch of task t returned a page with a qualifying table.
ScrapedTable(t) ==
    /\ Posted(t)
    /\ CallsOf(t, "fetch") # {}
    /\ pc[t] # "fetching"
    /\ ~locals[t].fetch.raises
    /\ \E i \in 1..Len(locals[t].fetch.tables) : locals[t].fetch.tables[i].class = "wikitable"

\* The rows (tr elements) of the first qualifying table.
QualifyingRows(t) ==
    LET tables == locals[t].fetch.tables
        first == CHOOSE i \in 1..Len(tables) :
                    /\ tables[i].class = "wikitable"
                    /\ \A j \in 1..(i - 1) : tables[j].class # "wikitable"
    IN  tables[first].rows

\* A row as a line: its trimmed cell texts with commas between them.
Line(cells) ==
    Concat([j \in 1..Len(cells) |-> (IF j > 1 THEN "," ELSE "") \o Trimmed(cells[j])],
           1, Len(cells)) \o "\n"

Min(a, b) == IF a <= b THEN a ELSE b

\* C8 (as claimed): for a qualifying table whose first row has cells, the
\* scraped text is (after its caption) the header row followed by the first
\* min(100, number of subsequent rows) rows, in table order.
C8_HeaderAndRows ==
    \A t \in Tasks :
        (ScrapedTable(t) /\ QualifyingRows(t) # <<>> /\ QualifyingRows(t)[1] # <<>>)
            => LET trs == QualifyingRows(t)
                   n == Min(ScrapeRowLimit, Len(trs) - 1)
               IN  locals[t].scraped_data =
                       "Scraped Data from " \o locals[t].url \o ":\n"
                       \o Line(trs[1])
                       \o Concat([k \in 1..n |-> Line(trs[k + 1])], 1, n)

\* The scraped text the amended claim describes.
ExpectedScrape(url, trs) ==
    LET WithCells(i) == i > 1 /\ trs[i] # <<>>
        kept == SelectSeq([i \in 1..Len(trs) |-> i], WithCells)
        n == Min(ScrapeRowLimit, Len(kept))
    IN  IF trs = <<>> \/ trs[1] = <<>> \/ kept = <<>> THEN ""
        ELSE "Scraped Data from " \o url \o ":\n"
             \o Line(trs[1])
             \o Concat([k \in 1..n |-> Line(trs[kept[k]])], 1, n)

\* C8 (amended): when the first row has cells and some later row has cells,
\* the scraped text is a caption line with the URL, the header row and the
\* first min(100, k) of the k later rows that have cells, in table order,
\* each as one line of trimmed cell texts joined by commas, and the prompt
\* holds it after "Scraped Data: "; otherwise nothing is scraped and the
\* prompt holds no scraped data.
C8_CaptionHeaderAndKeptRows ==
    \A t \in Tasks :
        ScrapedTable(t)
            => LET expected == ExpectedScrape(locals[t].url, QualifyingRows(t))
                   text == request[t].questions.text
                   csv == IF request[t].csv.present THEN request[t].csv.text ELSE ""
                   offset == Len(Instructions) + Len(csv) + Len(text) + 24
               IN  /\ locals[t].scraped_data = expected
                   /\ CallsOf(t, "generate") # {}
                        => IF expected = ""
                           THEN ~StartsWithAt(PromptOf(t), offset, "Scraped Data")
                           ELSE StartsWithAt(PromptOf(t), offset,
                                             "Scraped Data: " \o expected \o "\n")
                                \/ PromptOf(t) = SubSeq(PromptOf(t), 1, offset - 1)
                                                 \o "Scraped Data: " \o expected

C8_Witness ==
    \E t \in Tasks :
        /\ ScrapedTable(t)
        /\ CallsOf(t, "generate") # {}
        /\ Len(QualifyingRows(t)) > ScrapeRowLimit + 2
        /\ QualifyingRows(t)[3] = <<>>
        /\ locals[t].scraped_data # ""
        /\ StartsWithAt(locals[t].scraped_data,
                        Len(locals[t].scraped_data) - 5, ToString(ScrapeRowLimit + 1) \o ",x\n")

(***************************************************************************)
(* The event loop.                                                         *)
(***************************************************************************)

\* C5 (as claimed): while a request waits on its fetch or on its model call,
\* every other request the server has yet to answer can take a step.
C5_OthersNotBlocked ==
    \A t, u \in Tasks :
        (t # u /\ pc[t] \in {"fetching", "generating"} /\ pc[u] \notin {"idle", "done"})
            => ENABLED Serve(u)

====
